---------------------------- MODULE Spec2Model ----------------------------
(***************************************************************************)
(* A model of the DataAnalysisAgent application: the dataset store         *)
(* (app/state.py), the upload handler and the chat handler (app/main.py),  *)
(* the tool-calling agent loop configured in app/agent.py and the eight    *)
(* catalog operations of app/tools.                                        *)
(***************************************************************************)
EXTENDS Integers, Sequences, FiniteSets, TLC

(***************************************************************************)
(* Bounds of the model.                                                    *)
(***************************************************************************)
\* the largest integer argument a planner passes as n / limit
MaxArg == 22
\* the integer arguments range over -NegArgs .. MaxArg
NegArgs == 2
\* a response is put together from at most MaxChunks pieces
MaxChunks == 4
\* a transcript handed to the conversion has at most MaxEntries entries
MaxEntries == 3
\* the sessions write at most MaxCharts chart files before a new call starts
MaxCharts == 3
\* a transcript grows by at most MaxTurns turns
MaxTurns == 3

(***************************************************************************)
(* Program constants.                                                      *)
(***************************************************************************)
\* dataframe.py: n = max(1, min(n, 20))
MaxSampleRows == 20
\* stats.py: limit = max(1, min(limit, 20))
MaxValueCounts == 20
\* agent.py: AgentExecutor(max_iterations=10)
max_iterations == 10

\* Python's None where a string is expected
None == "<None>"

Min(a, b) == IF a < b THEN a ELSE b
Max(a, b) == IF a > b THEN a ELSE b

(***************************************************************************)
(* Cell values of a DataFrame and Python's str() of them.                  *)
(***************************************************************************)
IntV(i) == [t |-> "int", i |-> i, s |-> ""]
FloatV(i) == [t |-> "float", i |-> i, s |-> ""]
StrV(s) == [t |-> "str", i |-> 0, s |-> s]
NaN == [t |-> "nan", i |-> 0, s |-> ""]

Digit(d) == <<"0", "1", "2", "3", "4", "5", "6", "7", "8", "9">>[d + 1]

RECURSIVE NatToStr(_)
NatToStr(n) == IF n < 10 THEN Digit(n) ELSE NatToStr(n \div 10) \o Digit(n % 10)

IntToStr(i) == IF i < 0 THEN "-" \o NatToStr(0 - i) ELSE NatToStr(i)

\* str(k) for a key of a value_counts Series
PyStr(v) ==
    CASE v.t = "int" -> IntToStr(v.i)
      [] v.t = "float" -> IntToStr(v.i) \o ".0"
      [] v.t = "str" -> v.s
      [] v.t = "nan" -> "nan"

(***************************************************************************)
(* The DataFrames pd.read_csv can produce from the files a user uploads.   *)
(* A frame is referred to by an identifier, as STATE.df refers to an       *)
(* object.                                                                 *)
(***************************************************************************)
TitanicFrame ==
    [columns |-> <<"age", "fare", "sex">>,
     dtypes |-> [age |-> "float64", fare |-> "int64", sex |-> "object"],
     data |-> [age |-> <<FloatV(22), FloatV(38), NaN, FloatV(22), NaN>>,
               fare |-> <<IntV(7), IntV(71), IntV(8), IntV(7), IntV(8)>>,
               sex |-> <<StrV("male"), StrV("female"), StrV("female"),
                         StrV("male"), StrV("male")>>]]

IdsFrame ==
    [columns |-> <<"id", "code">>,
     dtypes |-> [id |-> "int64", code |-> "object"],
     data |-> [id |-> [i \in 1..22 |-> IntV(i)],
               code |-> [i \in 1..22 |->
                            CASE i % 4 = 0 -> StrV("1")
                              [] i % 4 = 1 -> IntV(1)
                              [] i % 4 = 2 -> NaN
                              [] OTHER -> StrV("nan")]]]

NotesFrame ==
    [columns |-> <<"note">>,
     dtypes |-> [note |-> "object"],
     data |-> [note |-> <<>>]]

Frame(id) ==
    CASE id = "df_titanic" -> TitanicFrame
      [] id = "df_ids" -> IdsFrame
      [] id = "df_notes" -> NotesFrame

Columns(df) == {df.columns[i] : i \in 1..Len(df.columns)}
\* df.shape[0]
NRows(df) == Len(df.data[df.columns[1]])
\* df.shape[1]
NCols(df) == Len(df.columns)

(***************************************************************************)
(* The result of calling a Python function: a value or a raised exception. *)
(***************************************************************************)
Return(v) == [ok |-> TRUE, value |-> v]
Raise(exc, msg) == [ok |-> FALSE, exc |-> exc, msg |-> msg]


(***************************************************************************)
(* String helpers.  str.strip().lower() and the substring test are given   *)
(* by their values on the argument strings the model passes.               *)
(***************************************************************************)
\* s.strip().lower()
StripLower(s) ==
    CASE s = " Pearson " -> "pearson"
      [] s = "KENDALL" -> "kendall"
      [] s = " Scatter" -> "scatter"
      [] s = "HIST " -> "hist"
      [] s = "AGE" -> "age"
      [] s = "   " -> ""
      [] OTHER -> s

\* c.lower() of a column name
Lower(s) ==
    CASE s = "AGE" -> "age"
      [] OTHER -> s

\* (s or default)
OrDefault(s, default) == IF s = None \/ s = "" THEN default ELSE s

\* kw in c, for a non-empty lower-case keyword and a column name
Contains(c, kw) ==
    \/ kw = c
    \/ <<kw, c>> \in {<<"e", "age">>, <<"e", "fare">>, <<"e", "sex">>,
                      <<"e", "code">>, <<"e", "note">>, <<"d", "id">>,
                      <<"d", "code">>, <<"ag", "age">>}

(***************************************************************************)
(* The dataset store (app/state.py): one process-wide object.              *)
(***************************************************************************)
AppState == [df |-> None, dataset_name |-> None]

\* _require_df() of dataframe.py, stats.py and visualization.py
RequireDf(st) ==
    IF st.df = None THEN Raise("ValueError", "NoDataset") ELSE Return(st.df)

(***************************************************************************)
(* app/tools/dataframe.py                                                  *)
(***************************************************************************)
\* the dict dataset_summary builds from a frame and a dataset name
SummaryDict(dfid, name) ==
    [rows |-> NRows(Frame(dfid)),
     columns |-> NCols(Frame(dfid)),
     column_names |-> Frame(dfid).columns,
     dtypes |-> Frame(dfid).dtypes,
     dataset_name |-> name]

dataset_summary(st) ==
    LET r == RequireDf(st)
    IN  IF ~r.ok THEN r ELSE Return(SummaryDict(r.value, st.dataset_name))

\* df.head(n): the first n rows; for n < 0 all but the last -n rows
HeadCount(len, n) == IF n >= 0 THEN Min(n, len) ELSE Max(0, len + n)

\* df.head(n).to_dict(orient="records")
HeadRecords(df, n) ==
    [i \in 1..HeadCount(NRows(df), n) |->
        [c \in Columns(df) |-> df.data[c][i]]]

\* mutant of ClampSample: the upper clamp is missing
ClampSample_NoUpper(n) == Max(1, n)

\* n = max(1, min(n, 20))
ClampSample(n) == Max(1, Min(n, MaxSampleRows))

\* n is an integer here, so int(n) leaves it as it is
sample_rows(st, n) ==
    LET r == RequireDf(st)
    IN  IF ~r.ok THEN r
        ELSE Return(HeadRecords(Frame(r.value), ClampSample(n)))

find_columns(st, keyword) ==
    LET r == RequireDf(st)
        kw == StripLower(OrDefault(keyword, ""))
        cols == Frame(r.value).columns
    IN  IF ~r.ok THEN r
        ELSE IF kw = "" THEN Return(<<>>)
        ELSE Return(SelectSeq(cols, LAMBDA c : Contains(Lower(c), kw)))

(***************************************************************************)
(* app/tools/stats.py                                                      *)
(***************************************************************************)
\* Series.isna().sum()
NMissing(vals) == Cardinality({i \in 1..Len(vals) : vals[i] = NaN})

\* describe_columns: columns is [none |-> TRUE] or [none |-> FALSE, list |-> <<..>>].
\* Of the statistics of DataFrame.describe only "count" is modelled.
describe_columns(st, columns) ==
    LET r == RequireDf(st)
        df == Frame(r.value)
        missing == IF columns.none THEN <<>>
                   ELSE SelectSeq(columns.list, LAMBDA c : c \notin Columns(df))
        sel == IF columns.none THEN Columns(df)
               ELSE {columns.list[i] : i \in 1..Len(columns.list)}
    IN  IF ~r.ok THEN r
        ELSE IF missing # <<>> THEN Raise("ValueError", "UnknownColumn")
        ELSE IF sel = {} THEN Raise("ValueError", "CannotDescribe")
        ELSE Return([c \in sel |->
                        [count |-> Len(df.data[c]) - NMissing(df.data[c])]])

missing_values(st) ==
    LET r == RequireDf(st)
        df == Frame(r.value)
    IN  IF ~r.ok THEN r
        ELSE Return([c \in Columns(df) |-> NMissing(df.data[c])])

\* mutant of ClampLimit: the upper clamp is missing
ClampLimit_NoUpper(limit) == Max(1, limit)

\* limit = max(1, min(limit, 20)), limit an integer (int(limit) leaves it)
ClampLimit(limit) == Max(1, Min(limit, MaxValueCounts))

\* Series.value_counts(dropna=False): the distinct values with their counts,
\* most frequent first, equal counts in first-seen order
SeriesValueCounts(vals) ==
    LET first == {i \in 1..Len(vals) : \A j \in 1..(i - 1) : vals[j] # vals[i]}
        cnt == [i \in first |-> Cardinality({j \in 1..Len(vals) : vals[j] = vals[i]})]
        rank == [i \in first |->
                    1 + Cardinality({j \in first :
                            \/ cnt[j] > cnt[i]
                            \/ cnt[j] = cnt[i] /\ j < i})]
    IN  [r \in 1..Cardinality(first) |->
            LET i == CHOOSE k \in first : rank[k] = r
            IN  [k |-> vals[i], v |-> cnt[i]]]

\* Series.head(n) for n >= 0
SeriesHead(vc, n) == [i \in 1..Min(n, Len(vc)) |-> vc[i]]

\* {str(k): int(v) for k, v in vc.items()}: a later item replaces an earlier
\* one with the same key
StrKeyDict(vc) ==
    LET keys == {PyStr(vc[i].k) : i \in 1..Len(vc)}
        last(key) == CHOOSE i \in 1..Len(vc) :
                        /\ PyStr(vc[i].k) = key
                        /\ \A j \in (i + 1)..Len(vc) : PyStr(vc[j].k) # key
    IN  [key \in keys |-> vc[last(key)].v]

value_counts(st, column, limit) ==
    LET r == RequireDf(st)
        df == Frame(r.value)
    IN  IF ~r.ok THEN r
        ELSE IF column \notin Columns(df)
             THEN Raise("ValueError", "UnknownColumn")
        ELSE Return(StrKeyDict(SeriesHead(SeriesValueCounts(df.data[column]),
                                          ClampLimit(limit))))

CorrMethods == {"pearson", "spearman", "kendall"}

\* df.select_dtypes(include="number"): the numeric columns, in order
NumericColumns(df) ==
    SelectSeq(df.columns, LAMBDA c : df.dtypes[c] \in {"int64", "float64"})

\* mutant of correlation_matrix: one numeric column is taken to be enough
correlation_matrix_OneColumn(st, method) ==
    LET r == RequireDf(st)
        df == Frame(r.value)
        m == StripLower(OrDefault(method, "pearson"))
        num == NumericColumns(df)
        numset == {num[i] : i \in 1..Len(num)}
    IN  IF ~r.ok THEN r
        ELSE IF m \notin CorrMethods
             THEN Raise("ValueError", "UnsupportedMethod")
        ELSE IF Len(num) < 1
             THEN Raise("ValueError", "InsufficientNumericColumns")
        ELSE Return([a \in numset |-> [b \in numset |-> "r"]])

\* The coefficients of the matrix are not modelled: each cell holds "r".
correlation_matrix(st, method) ==
    LET r == RequireDf(st)
        df == Frame(r.value)
        m == StripLower(OrDefault(method, "pearson"))
        num == NumericColumns(df)
        numset == {num[i] : i \in 1..Len(num)}
    IN  IF ~r.ok THEN r
        ELSE IF m \notin CorrMethods
             THEN Raise("ValueError", "UnsupportedMethod")
        ELSE IF Len(num) < 2
             THEN Raise("ValueError", "InsufficientNumericColumns")
        ELSE Return([a \in numset |-> [b \in numset |-> "r"]])

(***************************************************************************)
(* app/tools/visualization.py                                              *)
(***************************************************************************)
ALLOWED_PLOTS == {"hist", "box", "scatter", "bar"}

\* mutant of PlotValidate: the check that scatter has a column_y is missing
PlotValidate_NoSecondCheck(st, kind, column_x, column_y) ==
    LET r == RequireDf(st)
        df == Frame(r.value)
        k == StripLower(OrDefault(kind, ""))
    IN  IF ~r.ok THEN r
        ELSE IF k \notin ALLOWED_PLOTS
             THEN Raise("ValueError", "UnsupportedKind")
        ELSE IF column_x \notin Columns(df)
             THEN Raise("ValueError", "UnknownColumn")
        ELSE IF k = "scatter" /\ column_y \notin Columns(df)
             THEN Raise("ValueError", "UnknownColumn")
        ELSE Return(k)

\* The validation of plot, up to plt.figure: the exception raised, or the
\* normalised kind.
PlotValidate(st, kind, column_x, column_y) ==
    LET r == RequireDf(st)
        df == Frame(r.value)
        k == StripLower(OrDefault(kind, ""))
    IN  IF ~r.ok THEN r
        ELSE IF k \notin ALLOWED_PLOTS
             THEN Raise("ValueError", "UnsupportedKind")
        ELSE IF column_x \notin Columns(df)
             THEN Raise("ValueError", "UnknownColumn")
        ELSE IF k = "scatter" /\ (column_y = None \/ column_y = "")
             THEN Raise("ValueError", "MissingSecondaryColumn")
        ELSE IF k = "scatter" /\ column_y \notin Columns(df)
             THEN Raise("ValueError", "UnknownColumn")
        ELSE Return(k)

\* uuid.uuid4().hex, from a small space of identifiers
HexIds == {"ab12cd", "9f2c"}

\* mutant of PlotFilename: one name for every chart
PlotFilename_Fixed(hex) == "/tmp/plot.png"

\* f"/tmp/plot_{uuid.uuid4().hex}.png"
PlotFilename(hex) == "/tmp/plot_" \o hex \o ".png"

\* plot: validation, then plt.savefig(filename), which writes the file or
\* raises OSError.  fs is the set of files present; the result is the pair
\* of plot's outcome and the files afterwards.
plot(st, fs, kind, column_x, column_y, hex, writable) ==
    LET v == PlotValidate(st, kind, column_x, column_y)
    IN  IF ~v.ok THEN [res |-> v, fs |-> fs]
        ELSE IF ~writable THEN [res |-> Raise("OSError", "SavefigFailed"), fs |-> fs]
        ELSE [res |-> Return(PlotFilename(hex)),
              fs |-> fs \cup {PlotFilename(hex)}]


(***************************************************************************)
(* Text, character by character: what str.strip, str.replace, re.findall   *)
(* and re.sub do in chat_handler.  A scan is a function of the position it *)
(* has come to.                                                            *)
(***************************************************************************)
\* the characters str.strip() removes (those that occur in the texts here)
Whitespace == {" ", "\t", "\n", "\r", "\f"}

\* s[i-1] in Python's indexing: the i-th character
CharAt(s, i) == SubSeq(s, i, i)

\* s.startswith(lit, i-1)
StartsAt(s, i, lit) ==
    /\ i >= 1
    /\ i + Len(lit) - 1 <= Len(s)
    /\ SubSeq(s, i, i + Len(lit) - 1) = lit

\* str.strip(): from the first to the last character that is not whitespace
Strip(s) ==
    LET kept == {i \in 1..Len(s) : CharAt(s, i) \notin Whitespace}
    IN  IF kept = {} THEN ""
        ELSE SubSeq(s, CHOOSE a \in kept : \A b \in kept : a <= b,
                       CHOOSE a \in kept : \A b \in kept : a >= b)

\* str.replace(old, "")
RemoveAll(s, old) ==
    LET rest[i \in 1..(Len(s) + 1)] ==
            IF i > Len(s) THEN ""
            ELSE IF StartsAt(s, i, old)
            THEN rest[i + Len(old)]
            ELSE CharAt(s, i) \o rest[i + 1]
    IN  rest[1]

\* the class [a-f0-9]
HexChars == {"a", "b", "c", "d", "e", "f",
             "0", "1", "2", "3", "4", "5", "6", "7", "8", "9"}

\* the length of the run [a-f0-9]* at position i
HexRun(s, i) ==
    LET run[p \in 1..(Len(s) + 1)] ==
            IF p <= Len(s) /\ CharAt(s, p) \in HexChars THEN 1 + run[p + 1] ELSE 0
    IN  IF i > Len(s) THEN 0 ELSE run[i]

\* r'/tmp/plot_[a-f0-9]+\.png' matched at position i: the position of the
\* match's last character, 0 when there is no match at i.  The run of
\* [a-f0-9]+ is taken whole: no shorter run can be followed by "."
PlotPathEnd(s, i) ==
    IF ~StartsAt(s, i, "/tmp/plot_") THEN 0
    ELSE LET h == i + Len("/tmp/plot_")
             k == HexRun(s, h)
         IN  IF k >= 1 /\ StartsAt(s, h + k, ".png")
             THEN h + k + Len(".png") - 1
             ELSE 0

\* r'sandbox:(/tmp/plot_[a-f0-9]+\.png)' matched at position i
SandboxPathEnd(s, i) ==
    IF StartsAt(s, i, "sandbox:") THEN PlotPathEnd(s, i + Len("sandbox:")) ELSE 0

\* re.findall(r'/tmp/plot_[a-f0-9]+\.png', s): the matches, left to right,
\* none overlapping
FindAllPlotPath(s) ==
    LET rest[i \in 1..(Len(s) + 1)] ==
            IF i > Len(s) THEN <<>>
            ELSE IF PlotPathEnd(s, i) > 0
            THEN <<SubSeq(s, i, PlotPathEnd(s, i))>> \o rest[PlotPathEnd(s, i) + 1]
            ELSE rest[i + 1]
    IN  rest[1]

\* re.findall(r'sandbox:(/tmp/plot_[a-f0-9]+\.png)', s): with one group in
\* the pattern, findall gives the group of each match
FindAllSandboxPath(s) ==
    LET rest[i \in 1..(Len(s) + 1)] ==
            IF i > Len(s) THEN <<>>
            ELSE IF SandboxPathEnd(s, i) > 0
            THEN <<SubSeq(s, i + Len("sandbox:"), SandboxPathEnd(s, i))>> \o
                 rest[SandboxPathEnd(s, i) + 1]
            ELSE rest[i + 1]
    IN  rest[1]

\* "." of a pattern matches every character but the newline
NoNewline(s, a, b) == \A p \in a..b : CharAt(s, p) # "\n"

\* r'!\[.*?\]\(sandbox:/tmp/.*?\)' matched at position i: the position of the
\* closing parenthesis, 0 when there is no match at i.  Each ".*?" takes the
\* fewest characters with which the rest of the pattern still matches.
MarkdownImageEnd(s, i) ==
    IF ~StartsAt(s, i, "![") THEN 0
    ELSE LET open == "](sandbox:/tmp/"
             Closes(j) == {k \in j + Len(open) .. Len(s) :
                              /\ NoNewline(s, j + Len(open), k - 1)
                              /\ CharAt(s, k) = ")"}
             Opens == {j \in i + Len("![") .. Len(s) :
                              /\ NoNewline(s, i + Len("!["), j - 1)
                              /\ StartsAt(s, j, open)
                              /\ Closes(j) # {}}
         IN  IF Opens = {} THEN 0
             ELSE LET j == CHOOSE a \in Opens : \A b \in Opens : a <= b
                  IN  CHOOSE k \in Closes(j) : \A b \in Closes(j) : k <= b

\* re.sub(r'!\[.*?\]\(sandbox:/tmp/.*?\)', '', s)
SubMarkdownImage(s) ==
    LET rest[i \in 1..(Len(s) + 1)] ==
            IF i > Len(s) THEN ""
            ELSE IF MarkdownImageEnd(s, i) > 0
            THEN rest[MarkdownImageEnd(s, i) + 1]
            ELSE CharAt(s, i) \o rest[i + 1]
    IN  rest[1]

\* re.sub(r'sandbox:/tmp/plot_[a-f0-9]+\.png', '', s)
SubSandboxPath(s) ==
    LET rest[i \in 1..(Len(s) + 1)] ==
            IF i > Len(s) THEN ""
            ELSE IF SandboxPathEnd(s, i) > 0
            THEN rest[SandboxPathEnd(s, i) + 1]
            ELSE CharAt(s, i) \o rest[i + 1]
    IN  rest[1]

\* the caption that stands for an answer that was nothing but the image
FallbackCaption == "I generated a plot for you. See below."

\* "Clean up the response": the two re.sub, strip(), and the caption; each
\* text on the way is bound as a value
CleanUp(response) ==
    CHOOSE d \in {IF c = "" THEN FallbackCaption ELSE c :
                     c \in {Strip(b) : b \in {SubSandboxPath(a) :
                                a \in {SubMarkdownImage(response)}}}} : TRUE

\* mutant of ExtractPlot: the response is trimmed also when no pattern matches
ExtractPlot_TrimsAlways(response) ==
    LET direct == FindAllPlotPath(response)
    IN  IF direct # <<>>
        THEN [plot_path |-> RemoveAll(direct[1], "sandbox:"),
              display_response |-> CleanUp(response)]
        ELSE [plot_path |-> None, display_response |-> Strip(response)]

\* chat_handler, "Extract plot path from response": the first pattern of
\* path_patterns that has a match decides
ExtractPlot(response) ==
    LET direct == FindAllPlotPath(response)
        wrapped == FindAllSandboxPath(response)
    IN  IF direct # <<>>
        THEN [plot_path |-> RemoveAll(direct[1], "sandbox:"),
              display_response |-> CleanUp(response)]
        ELSE IF wrapped # <<>>
        THEN [plot_path |-> RemoveAll(wrapped[1], "sandbox:"),
              display_response |-> CleanUp(response)]
        ELSE [plot_path |-> None, display_response |-> response]

(***************************************************************************)
(* chat_handler, "Convert chat_history to LangChain format".  An entry of  *)
(* the transcript is given by its Python type: a dict (the dict as a       *)
(* function of its keys), a list or a tuple (its elements), or a value of  *)
(* another type.                                                           *)
(***************************************************************************)
NoKeys == [k \in {} |-> ""]
DictItem(d) == [kind |-> "dict", dict |-> d, seq |-> <<>>]
SeqItem(kind, elems) == [kind |-> kind, dict |-> NoKeys, seq |-> elems]
OtherItem(kind) == [kind |-> kind, dict |-> NoKeys, seq |-> <<>>]

\* "if item[1]": None and the empty text are false
Truthy(v) == v \notin {None, ""}

\* the body of "for item in chat_history": what one entry appends to
\* langchain_history, or the KeyError of item["role"], item["content"]
ConvertItem(item) ==
    IF item.kind = "dict"
    THEN IF "role" \notin DOMAIN item.dict THEN Raise("KeyError", "'role'")
         ELSE IF "content" \notin DOMAIN item.dict THEN Raise("KeyError", "'content'")
         ELSE Return(<< <<IF item.dict["role"] = "user" THEN "human" ELSE "ai",
                          item.dict["content"]>> >>)
    ELSE IF item.kind \in {"list", "tuple"} /\ Len(item.seq) = 2
    THEN Return(<< <<"human", item.seq[1]>> >> \o
                (IF Truthy(item.seq[2]) THEN << <<"ai", item.seq[2]>> >> ELSE <<>>))
    ELSE Return(<<>>)

\* the loop over chat_history from entry i on, langchain_history being acc;
\* an exception ends it
RECURSIVE ConvertFrom(_, _, _)
ConvertFrom(chat_history, i, acc) ==
    IF i > Len(chat_history) THEN Return(acc)
    ELSE LET one == ConvertItem(chat_history[i])
         IN  IF one.ok THEN ConvertFrom(chat_history, i + 1, acc \o one.value)
             ELSE one

langchain_history(chat_history) == ConvertFrom(chat_history, 1, <<>>)


(***************************************************************************)
(* State.                                                                  *)
(***************************************************************************)
VARIABLES
    State,          \* app.state.STATE: [df, dataset_name]
    files,          \* the chart files present in /tmp
    call,           \* the latest direct call of a catalog operation
    result,         \* what that call returned or raised
    up,             \* the thread running load_csv
    rd,             \* a chat turn's thread running dataset_summary
    storeAtEntry,   \* history: the store when the running load_csv was entered
    charts,         \* per session, the call of plot it is running
    written,        \* history: the chart files written, in the order of writing
    pc,             \* where the chat turn is
    message,        \* chat_handler's message
    chat_history,   \* the transcript the UI holds
    iterations,     \* AgentExecutor's iteration counter
    intermediate_steps, \* the scratchpad: per step, the kind of its observation
    step,           \* the latest agent action: the call, what ran, its outcome
    outcome,        \* how agent.invoke ended
    reply           \* what chat_handler returned or raised

opVars == <<call, result>>
upVars == <<up, rd, storeAtEntry>>
chartVars == <<charts, written>>
chatVars == <<pc, message, chat_history, iterations, intermediate_steps, step,
              outcome, reply>>
vars == <<State, files, call, result, up, rd, storeAtEntry, charts, written,
          pc, message, chat_history, iterations, intermediate_steps, step,
          outcome, reply>>

(***************************************************************************)
(* Uploaded files: the path Gradio hands to load_csv, and what             *)
(* pd.read_csv makes of it.                                                *)
(***************************************************************************)
UploadPaths ==
    {[dir |-> "/tmp/gradio/1", base |-> "titanic.csv"],
     [dir |-> "/tmp/gradio/2", base |-> "ids.csv"],
     [dir |-> "/tmp/gradio/3", base |-> "notes.csv"],
     [dir |-> "/tmp/gradio/4", base |-> "broken.csv"]}

\* os.path.basename(filepath)
Basename(path) == path.base

\* pd.read_csv(filepath)
ReadCsv(path) ==
    CASE path.base = "titanic.csv" -> Return("df_titanic")
      [] path.base = "ids.csv" -> Return("df_ids")
      [] path.base = "notes.csv" -> Return("df_notes")
      [] OTHER -> Raise("ParserError", "ReadCsvFailed")

\* the store after load_csv(path) has run to its end on a readable file
Loaded(path) == [df |-> ReadCsv(path).value, dataset_name |-> Basename(path)]

\* the states of the store between uploads
StoreStates == {AppState} \cup {Loaded(p) : p \in {q \in UploadPaths : ReadCsv(q).ok}}

(***************************************************************************)
(* The arguments a caller passes to the operations.                        *)
(***************************************************************************)
IntArgs == (0 - NegArgs)..MaxArg
ColumnArgs == {"age", "fare", "sex", "id", "code", "note", "nope"}
MethodArgs == {"pearson", "spearman", "kendall", " Pearson ", "KENDALL",
               "bogus", "", None}
KindArgs == {"hist", "box", "scatter", "bar", " Scatter", "HIST ", "pie", "", None}
SecondArgs == {None, "", "fare", "nope"}
KeywordArgs == {"", "   ", "e", "d", "AGE", "zzz", None}
ColumnListArgs ==
    {[none |-> TRUE, list |-> <<>>],
     [none |-> FALSE, list |-> <<>>],
     [none |-> FALSE, list |-> <<"age">>],
     [none |-> FALSE, list |-> <<"age", "nope">>]}

NoCall == [name |-> "none"]
NoResult == [ok |-> TRUE, value |-> "none"]

\* a missing upload: load_csv(None)
NoFile == [dir |-> "", base |-> ""]

UpIdle == [pc |-> "idle", file |-> NoFile, df |-> None, ret |-> None]
RdIdle == [pc |-> "idle", df |-> None, out |-> NoResult]
NoStep == [call |-> NoCall, ran |-> "none", res |-> NoResult]
NoOutcome == [kind |-> "none"]
NoReply == [kind |-> "none"]

UploadAtRest ==
    /\ up = UpIdle
    /\ rd = RdIdle
    /\ storeAtEntry = State

\* the sessions that call plot side by side
Sessions == {"s1", "s2"}

ChartIdle == [pc |-> "idle", hex |-> "", filename |-> "", ret |-> NoResult]

ChartAtRest ==
    /\ charts = [s \in Sessions |-> ChartIdle]
    /\ written = <<>>

ChatAtRest ==
    /\ pc = "idle"
    /\ message = ""
    /\ chat_history = <<>>
    /\ iterations = 0
    /\ intermediate_steps = <<>>
    /\ step = NoStep
    /\ outcome = NoOutcome
    /\ reply = NoReply

(***************************************************************************)
(* The operations called directly, one action each: a behaviour draws the  *)
(* store and the files present, then makes one call.                       *)
(***************************************************************************)
CallDatasetSummary ==
    /\ call = NoCall
    /\ call' = [name |-> "dataset_summary"]
    /\ result' = dataset_summary(State)
    /\ UNCHANGED <<State, files, upVars, chartVars, chatVars>>

CallSampleRows ==
    \E n \in IntArgs :
        /\ call = NoCall
        /\ call' = [name |-> "sample_rows", n |-> n]
        /\ result' = sample_rows(State, n)
        /\ UNCHANGED <<State, files, upVars, chartVars, chatVars>>

CallFindColumns ==
    \E kw \in KeywordArgs :
        /\ call = NoCall
        /\ call' = [name |-> "find_columns", keyword |-> kw]
        /\ result' = find_columns(State, kw)
        /\ UNCHANGED <<State, files, upVars, chartVars, chatVars>>

CallDescribeColumns ==
    \E cols \in ColumnListArgs :
        /\ call = NoCall
        /\ call' = [name |-> "describe_columns", columns |-> cols]
        /\ result' = describe_columns(State, cols)
        /\ UNCHANGED <<State, files, upVars, chartVars, chatVars>>

CallMissingValues ==
    /\ call = NoCall
    /\ call' = [name |-> "missing_values"]
    /\ result' = missing_values(State)
    /\ UNCHANGED <<State, files, upVars, chartVars, chatVars>>

CallValueCounts ==
    \E c \in ColumnArgs, limit \in IntArgs :
        /\ call = NoCall
        /\ call' = [name |-> "value_counts", column |-> c, limit |-> limit]
        /\ result' = value_counts(State, c, limit)
        /\ UNCHANGED <<State, files, upVars, chartVars, chatVars>>

CallCorrelationMatrix ==
    \E m \in MethodArgs :
        /\ call = NoCall
        /\ call' = [name |-> "correlation_matrix", method |-> m]
        /\ result' = correlation_matrix(State, m)
        /\ UNCHANGED <<State, files, upVars, chartVars, chatVars>>

CallPlot ==
    \E k \in KindArgs, x \in ColumnArgs, y \in SecondArgs,
       hex \in HexIds, writable \in BOOLEAN :
        LET out == plot(State, files, k, x, y, hex, writable)
        IN  /\ call = NoCall
            /\ call' = [name |-> "plot", kind |-> k, column_x |-> x, column_y |-> y]
            /\ result' = out.res
            /\ files' = out.fs
            /\ UNCHANGED <<State, upVars, chartVars, chatVars>>

OpsInit ==
    /\ State \in StoreStates
    /\ files \in SUBSET {PlotFilename(h) : h \in HexIds}
    /\ call = NoCall
    /\ result = NoResult
    /\ UploadAtRest
    /\ ChartAtRest
    /\ ChatAtRest

OpsNext ==
    \/ CallDatasetSummary
    \/ CallSampleRows
    \/ CallFindColumns
    \/ CallDescribeColumns
    \/ CallMissingValues
    \/ CallValueCounts
    \/ CallCorrelationMatrix
    \/ CallPlot

OpsSpec == OpsInit /\ [][OpsNext]_vars


(***************************************************************************)
(* Properties of the operations (checked under OpsSpec).                   *)
(***************************************************************************)
RECURSIVE SumOver(_, _)
\* the sum of f[k] over the keys k in ks
SumOver(f, ks) ==
    IF ks = {} THEN 0
    ELSE LET k == CHOOSE x \in ks : TRUE IN f[k] + SumOver(f, ks \ {k})

SampleReturned == call.name = "sample_rows" /\ result.ok

\* C7 as stated: for every requested n and every loaded dataset, sample_rows(n)
\* returns exactly max(1, min(n, 20)) rows.
C7_ExactlyClampedRows ==
    SampleReturned => Len(result.value) = Max(1, Min(call.n, 20))

\* C7 amended: sample_rows(n) returns the first min(rows, max(1, min(n, 20)))
\* rows of the dataset, rows being the dataset's row count: the clamped count,
\* cut down to the rows the dataset has.
C7_ClampedRowsUpToLength ==
    SampleReturned =>
        LET df == Frame(State.df)
            k == Min(NRows(df), Max(1, Min(call.n, 20)))
        IN  /\ Len(result.value) = k
            /\ \A i \in 1..k : \A c \in Columns(df) :
                   result.value[i][c] = df.data[c][i]

C7_Witness ==
    /\ SampleReturned
    /\ call.n > 20
    /\ State.df = "df_ids"
    /\ Len(result.value) = 20

ValueCountsReturned == call.name = "value_counts" /\ result.ok

\* C8: for every existing column and every limit, value_counts returns at most
\* max(1, min(limit, 20)) entries and the returned counts sum to at most the
\* dataset's row count.
C8_ValueCountsBounded ==
    ValueCountsReturned =>
        /\ Cardinality(DOMAIN result.value) <= Max(1, Min(call.limit, 20))
        /\ SumOver(result.value, DOMAIN result.value) <= NRows(Frame(State.df))

\* value_counts of a column whose values 1, "1", NaN and "nan" collapse to two
\* string keys, with the missing values counted
C8_Witness ==
    /\ ValueCountsReturned
    /\ call.column = "code"
    /\ call.limit >= 4
    /\ DOMAIN result.value = {"1", "nan"}
    /\ SumOver(result.value, DOMAIN result.value) < NRows(Frame(State.df))

FewNumericColumns ==
    /\ call.name = "correlation_matrix"
    /\ State.df # None
    /\ Len(NumericColumns(Frame(State.df))) < 2

InsufficientNumericColumns == Raise("ValueError", "InsufficientNumericColumns")

\* C9 as stated: with fewer than 2 numeric columns correlation_matrix raises
\* InsufficientNumericColumns for any method argument whatever.
C9_InsufficientForAnyMethod ==
    FewNumericColumns => result = InsufficientNumericColumns

\* C9 amended: with fewer than 2 numeric columns correlation_matrix raises
\* InsufficientNumericColumns for every method argument that is empty, None or,
\* trimmed and lower-cased, one of pearson, spearman, kendall; for any other
\* method argument it raises the unsupported-method error instead.
C9_InsufficientForSupportedMethod ==
    FewNumericColumns =>
        IF \/ call.method \in {"", None}
           \/ StripLower(call.method) \in {"pearson", "spearman", "kendall"}
        THEN result = InsufficientNumericColumns
        ELSE result = Raise("ValueError", "UnsupportedMethod")

C9_Witness ==
    /\ FewNumericColumns
    /\ State.df = "df_ids"
    /\ call.method = " Pearson "
    /\ result = InsufficientNumericColumns

ScatterWithoutSecond ==
    /\ call.name = "plot"
    /\ State.df # None
    /\ call.kind # None
    /\ StripLower(call.kind) = "scatter"
    /\ call.column_y \in {None, ""}

MissingSecondaryColumn == Raise("ValueError", "MissingSecondaryColumn")

ScatterCallNext ==
    /\ call'.name = "plot"
    /\ State.df # None
    /\ call'.kind # None
    /\ StripLower(call'.kind) = "scatter"
    /\ call'.column_y \in {None, ""}

\* C10 as stated: with a dataset loaded, a scatter call without a secondary
\* column raises MissingSecondaryColumn for every primary column argument.
C10_MissingSecondaryForEveryX ==
    ScatterWithoutSecond => result = MissingSecondaryColumn

\* C10 amended: with a dataset loaded, a scatter call without a secondary column
\* (None or empty) raises MissingSecondaryColumn for every primary column that
\* exists in the dataset, and the unknown-column error for a primary column that
\* does not; in both cases it writes no file.
C10_MissingSecondaryForExistingX ==
    /\ [](ScatterWithoutSecond =>
            IF call.column_x \in Columns(Frame(State.df))
            THEN result = MissingSecondaryColumn
            ELSE result = Raise("ValueError", "UnknownColumn"))
    /\ [][ScatterCallNext => files' = files]_files

C10_Witness ==
    /\ ScatterWithoutSecond
    /\ call.kind = " Scatter"
    /\ call.column_x = "age"
    /\ State.df = "df_titanic"
    /\ result = MissingSecondaryColumn


(***************************************************************************)
(* load_csv (app/main.py), statement by statement.  Gradio runs the upload *)
(* handler and the chat handler on worker threads, one run of each event   *)
(* at a time, so a load_csv can run between any two statements of a chat   *)
(* turn's operation.                                                       *)
(***************************************************************************)
\* entry, and "if file is None: return"
LoadCsvEnter ==
    \E file \in UploadPaths \cup {NoFile} :
        /\ up.pc \in {"idle", "returned"}
        /\ storeAtEntry' = State
        /\ up' = IF file = NoFile
                 THEN [pc |-> "returned", file |-> file, df |-> None,
                       ret |-> "No file uploaded."]
                 ELSE [pc |-> "read_csv", file |-> file, df |-> None, ret |-> None]
        /\ UNCHANGED <<State, files, opVars, chartVars, rd, chatVars>>

\* mutant of LoadCsvRead: a failed read clears the store
LoadCsvRead_ClearsOnFailure ==
    /\ up.pc = "read_csv"
    /\ LET r == ReadCsv(up.file)
       IN  /\ up' = IF r.ok
                    THEN [up EXCEPT !.pc = "set_df", !.df = r.value]
                    ELSE [up EXCEPT !.pc = "returned", !.ret = "Failed to read CSV"]
           /\ State' = IF r.ok THEN State ELSE AppState
    /\ UNCHANGED <<files, opVars, chartVars, rd, storeAtEntry, chatVars>>

\* try: df = pd.read_csv(filepath) except Exception: return
LoadCsvRead ==
    /\ up.pc = "read_csv"
    /\ LET r == ReadCsv(up.file)
       IN  up' = IF r.ok
                 THEN [up EXCEPT !.pc = "set_df", !.df = r.value]
                 ELSE [up EXCEPT !.pc = "returned", !.ret = "Failed to read CSV"]
    /\ UNCHANGED <<State, files, opVars, chartVars, rd, storeAtEntry, chatVars>>

\* STATE.df = df
LoadCsvSetDf ==
    /\ up.pc = "set_df"
    /\ State' = [State EXCEPT !.df = up.df]
    /\ up' = [up EXCEPT !.pc = "set_name"]
    /\ UNCHANGED <<files, opVars, chartVars, rd, storeAtEntry, chatVars>>

\* STATE.dataset_name = os.path.basename(filepath); return "Loaded dataset ..."
LoadCsvSetName ==
    /\ up.pc = "set_name"
    /\ State' = [State EXCEPT !.dataset_name = Basename(up.file)]
    /\ up' = [up EXCEPT !.pc = "returned", !.ret = "Loaded dataset"]
    /\ UNCHANGED <<files, opVars, chartVars, rd, storeAtEntry, chatVars>>

(***************************************************************************)
(* dataset_summary as a concurrent chat turn runs it: it reads STATE.df in *)
(* _require_df and STATE.dataset_name when it builds the dict.             *)
(***************************************************************************)
\* df = _require_df()
SummaryRequireDf ==
    /\ rd.pc \in {"idle", "returned"}
    /\ LET r == RequireDf(State)
       IN  rd' = IF r.ok
                 THEN [pc |-> "build", df |-> r.value, out |-> NoResult]
                 ELSE [pc |-> "returned", df |-> None, out |-> r]
    /\ UNCHANGED <<State, files, opVars, chartVars, up, storeAtEntry, chatVars>>

\* return {..., "dataset_name": STATE.dataset_name}
SummaryBuild ==
    /\ rd.pc = "build"
    /\ rd' = [rd EXCEPT !.pc = "returned",
                        !.out = Return(SummaryDict(rd.df, State.dataset_name))]
    /\ UNCHANGED <<State, files, opVars, chartVars, up, storeAtEntry, chatVars>>

StoreInit ==
    /\ State = AppState
    /\ files = {}
    /\ call = NoCall
    /\ result = NoResult
    /\ UploadAtRest
    /\ ChartAtRest
    /\ ChatAtRest

StoreNext ==
    \/ LoadCsvEnter
    \/ LoadCsvRead
    \/ LoadCsvSetDf
    \/ LoadCsvSetName
    \/ SummaryRequireDf
    \/ SummaryBuild

StoreSpec == StoreInit /\ [][StoreNext]_vars

(***************************************************************************)
(* Properties of the dataset store (checked under StoreSpec).              *)
(***************************************************************************)
\* C4: an operation of a concurrent chat turn observes the (dataset, name) pair
\* of one upload, or the empty store, never a mixture: dataset_summary never
\* returns the shape of one upload with the dataset_name of another.
C4_SummaryObservesOnePair ==
    (rd.pc = "returned" /\ rd.out.ok) =>
        [df |-> rd.df, dataset_name |-> rd.out.value.dataset_name] \in StoreStates

\* C5: a failed upload (no file, or read_csv raised) leaves the store as it was
\* when load_csv was entered, and the store differs from that only once the
\* file has been parsed.
C5_FailedUploadKeepsStore ==
    /\ (up.pc = "returned" /\ up.ret # "Loaded dataset") => State = storeAtEntry
    /\ State # storeAtEntry => (up.pc \in {"set_name", "returned"} /\ ReadCsv(up.file).ok)

C5_Witness ==
    /\ up.pc = "returned"
    /\ up.ret = "Failed to read CSV"
    /\ State = Loaded([dir |-> "/tmp/gradio/1", base |-> "titanic.csv"])
    /\ rd.pc = "returned"
    /\ rd.out = dataset_summary(State)

(***************************************************************************)
(* The two conversions of chat_handler on their own: a behaviour applies   *)
(* the extraction of the plot path to a response, and once more to the     *)
(* text it gave, or converts a transcript.                                 *)
(***************************************************************************)
\* the pieces the responses are put together from
Chunks == {"/tmp/plot_ab12cd.png", "/tmp/plot_", "9f", ".png", "sandbox:",
           "![chart](", "![a]", ")", "See", " ", "\n"}

RECURSIVE Join(_)
Join(cs) == IF cs = <<>> THEN "" ELSE Head(cs) \o Join(Tail(cs))

\* the texts run_agent returns
Responses == {Join(cs) : cs \in UNION {[1..n -> Chunks] : n \in 0..MaxChunks}}

\* the entries of the transcripts the UI hands in
Entries ==
    {DictItem([role |-> "user", content |-> "hi"]),
     DictItem([role |-> "assistant", content |-> "hello"]),
     DictItem([role |-> "system", content |-> "be brief"]),
     DictItem([content |-> "hi"]),
     DictItem([role |-> "user"]),
     SeqItem("tuple", <<"q", "a">>),
     SeqItem("list", <<"q", None>>),
     SeqItem("list", <<"q", "">>),
     SeqItem("tuple", <<"q">>),
     SeqItem("list", <<"q", "a", "more">>),
     OtherItem("str"),
     OtherItem("NoneType")}

Transcripts == UNION {[1..n -> Entries] : n \in 0..MaxEntries}

CallExtractPlot ==
    /\ call = NoCall
    /\ \E response \in Responses :
        /\ call' = [name |-> "extract_plot", response |-> response,
                    first |-> response]
        /\ result' = Return(ExtractPlot(response))
    /\ UNCHANGED <<State, files, upVars, chartVars, chatVars>>

\* the extraction applied to the display text of an extraction
CallExtractPlotAgain ==
    /\ call.name = "extract_plot"
    /\ call' = [name |-> "extract_plot_again",
                response |-> result.value.display_response,
                first |-> call.response]
    /\ result' = Return(ExtractPlot(result.value.display_response))
    /\ UNCHANGED <<State, files, upVars, chartVars, chatVars>>

CallLangchainHistory ==
    /\ call = NoCall
    /\ \E h \in Transcripts :
        /\ call' = [name |-> "langchain_history", chat_history |-> h]
        /\ result' = langchain_history(h)
    /\ UNCHANGED <<State, files, upVars, chartVars, chatVars>>

PartsInit ==
    /\ State = AppState
    /\ files = {}
    /\ call = NoCall
    /\ result = NoResult
    /\ UploadAtRest
    /\ ChartAtRest
    /\ ChatAtRest

PartsNext ==
    \/ CallExtractPlot
    \/ CallExtractPlotAgain
    \/ CallLangchainHistory

PartsSpec == PartsInit /\ [][PartsNext]_vars


(***************************************************************************)
(* Properties of the extraction and of the conversion (checked under       *)
(* PartsSpec).                                                             *)
(***************************************************************************)
\* u is the path of a chart file: /tmp/plot_<hex>.png
IsChartPath(u) ==
    LET pre == "/tmp/plot_"
        suf == ".png"
        n == Len(u)
    IN  /\ n > Len(pre) + Len(suf)
        /\ SubSeq(u, 1, Len(pre)) = pre
        /\ SubSeq(u, n - Len(suf) + 1, n) = suf
        /\ \A p \in Len(pre) + 1 .. n - Len(suf) : CharAt(u, p) \in HexChars

\* the chart paths in t, as (first, last) positions
ChartReferences(t) ==
    UNION {{<<i, j>> : j \in {e \in i..Len(t) : IsChartPath(SubSeq(t, i, e))}} :
              i \in {b \in 1..Len(t) : StartsAt(t, b, "/tmp/plot_")}}

ContainsChartReference(t) == ChartReferences(t) # {}

ExtractionDone == call.name \in {"extract_plot", "extract_plot_again"}

\* C11: when the response holds a chart-file reference, the extraction gives
\* the path of the first one, without the sandbox: prefix, and a display text
\* that is trimmed, not empty (the caption stands for an empty one) and holds
\* no chart-file reference any more; "![chart](sandbox:/tmp/plot_ab12cd.png)"
\* gives /tmp/plot_ab12cd.png and the caption.
C11_DisplayTextHasNoReference ==
    (ExtractionDone /\ ContainsChartReference(call.response)) =>
        LET refs == ChartReferences(call.response)
            first == CHOOSE a \in refs : \A b \in refs : a[1] <= b[1]
            out == result.value
        IN  /\ out.plot_path = SubSeq(call.response, first[1], first[2])
            /\ out.display_response # ""
            /\ out.display_response = Strip(out.display_response)
            /\ ~ContainsChartReference(out.display_response)
            /\ call.response = "![chart](sandbox:/tmp/plot_ab12cd.png)" =>
                   out = [plot_path |-> "/tmp/plot_ab12cd.png",
                          display_response |-> FallbackCaption]

\* C12: a text that holds no chart-file reference is returned as it is, with
\* no plot path; so the extraction applied to a display text that holds no
\* reference gives that display text again.
C12_NoReferenceLeftUnchanged ==
    (ExtractionDone /\ ~ContainsChartReference(call.response)) =>
        result.value = [plot_path |-> None, display_response |-> call.response]

\* the caption the first extraction substituted, left as it is by the second
C12_Witness ==
    /\ call.name = "extract_plot_again"
    /\ call.first = "![chart](sandbox:/tmp/plot_ab12cd.png)"
    /\ call.response = FallbackCaption
    /\ result.value = [plot_path |-> None, display_response |-> FallbackCaption]


\* the messages the canonical sequence has for one entry of a transcript: two
\* for a paired entry, one when its assistant half is absent, one for a
\* role-tagged record, none for anything else
CanonicalMessages(item) ==
    IF item.kind = "dict" /\ {"role", "content"} \subseteq DOMAIN item.dict
    THEN << <<IF item.dict["role"] = "user" THEN "human" ELSE "ai",
              item.dict["content"]>> >>
    ELSE IF item.kind \in {"list", "tuple"} /\ Len(item.seq) = 2
    THEN IF item.seq[2] \in {None, ""}
         THEN << <<"human", item.seq[1]>> >>
         ELSE << <<"human", item.seq[1]>>, <<"ai", item.seq[2]>> >>
    ELSE <<>>

RECURSIVE CanonicalSequence(_)
CanonicalSequence(h) ==
    IF h = <<>> THEN <<>>
    ELSE CanonicalMessages(Head(h)) \o CanonicalSequence(Tail(h))

\* C13: the conversion of a transcript never raises and gives, in the order
\* of the entries, the messages of every well-formed entry; an entry of
\* unknown shape or a malformed one (a record without its role or content, a
\* sequence not of length 2) contributes nothing and the others are converted.
C13_MalformedEntriesSkipped ==
    call.name = "langchain_history" =>
        /\ result.ok
        /\ result.value = CanonicalSequence(call.chat_history)

(***************************************************************************)
(* plot called by sessions side by side, statement by statement            *)
(* (tools/visualization.py): the name is made, then the file is written.   *)
(***************************************************************************)
\* the calls of plot the sessions make
ChartArgs ==
    {[kind |-> "hist", column_x |-> "age", column_y |-> None],
     [kind |-> "scatter", column_x |-> "age", column_y |-> "fare"],
     [kind |-> "scatter", column_x |-> "age", column_y |-> None],
     [kind |-> "bar", column_x |-> "nope", column_y |-> None]}

\* plot down to "filename = ...": the validation, the figure, and the name
\* made of the digits uuid4 gives, which are any digits
PlotMakeFilename(s) ==
    /\ charts[s].pc = "idle"
    /\ Len(written) < MaxCharts
    /\ \E a \in ChartArgs, hex \in HexIds :
          LET v == PlotValidate(State, a.kind, a.column_x, a.column_y)
          IN  charts' = [charts EXCEPT ![s] =
                            IF v.ok
                            THEN [pc |-> "named", hex |-> hex,
                                  filename |-> PlotFilename(hex), ret |-> NoResult]
                            ELSE [ChartIdle EXCEPT !.ret = v]]
    /\ UNCHANGED <<State, files, opVars, upVars, written, chatVars>>

\* plt.savefig(filename), which writes the file, over an existing one too, or
\* raises OSError; plt.close(); return filename
PlotSavefig(s) ==
    /\ charts[s].pc = "named"
    /\ \E writable \in BOOLEAN :
          IF writable
          THEN /\ files' = files \cup {charts[s].filename}
               /\ written' = Append(written,
                                    [path |-> charts[s].filename,
                                     hex |-> charts[s].hex,
                                     by |-> s,
                                     fresh |-> charts[s].filename \notin files])
               /\ charts' = [charts EXCEPT ![s] =
                                [ChartIdle EXCEPT !.ret = Return(charts[s].filename)]]
          ELSE /\ charts' = [charts EXCEPT ![s] =
                                [ChartIdle EXCEPT !.ret = Raise("OSError", "SavefigFailed")]]
               /\ UNCHANGED <<files, written>>
    /\ UNCHANGED <<State, opVars, upVars, chatVars>>

ChartInit ==
    /\ State = Loaded([dir |-> "/tmp/gradio/1", base |-> "titanic.csv"])
    /\ files = {}
    /\ call = NoCall
    /\ result = NoResult
    /\ UploadAtRest
    /\ ChartAtRest
    /\ ChatAtRest

ChartNext ==
    \/ \E s \in Sessions : PlotMakeFilename(s)
    \/ \E s \in Sessions : PlotSavefig(s)

ChartSpec == ChartInit /\ [][ChartNext]_vars


ToolNames ==
    {"dataset_summary", "sample_rows", "find_columns", "describe_columns",
     "missing_values", "value_counts", "correlation_matrix", "plot"}

\* The function a StructuredTool wraps, applied to the arguments of a call.
\* StructuredTool.from_function is given no handle_tool_error and no
\* handle_validation_error: arguments that do not fit the function's signature
\* raise a ValidationError, and whatever the function raises is raised by the
\* tool.
RunTool(c, st, fs, hex, writable) ==
    IF ~c.valid THEN [res |-> Raise("ValidationError", "InvalidArguments"), fs |-> fs]
    ELSE CASE c.name = "dataset_summary" -> [res |-> dataset_summary(st), fs |-> fs]
           [] c.name = "sample_rows" -> [res |-> sample_rows(st, c.args.n), fs |-> fs]
           [] c.name = "find_columns" ->
                [res |-> find_columns(st, c.args.keyword), fs |-> fs]
           [] c.name = "describe_columns" ->
                [res |-> describe_columns(st, c.args.columns), fs |-> fs]
           [] c.name = "missing_values" -> [res |-> missing_values(st), fs |-> fs]
           [] c.name = "value_counts" ->
                [res |-> value_counts(st, c.args.column, c.args.limit), fs |-> fs]
           [] c.name = "correlation_matrix" ->
                [res |-> correlation_matrix(st, c.args.method), fs |-> fs]
           [] c.name = "plot" ->
                plot(st, fs, c.args.kind, c.args.column_x, c.args.column_y,
                     hex, writable)

NoArgs == [none |-> TRUE]

\* What a step keeps of a tool's outcome: the exception, or the return value
\* as the text handed back to the planner (plot returns text already).
Observation(name, res) ==
    IF ~res.ok \/ name = "plot" THEN res ELSE Return(ToString(res.value))

\* The tool calls the planner emits: calls of catalog operations with good and
\* bad arguments, a call whose arguments do not fit the signature, and calls
\* that name something outside the catalog.
PlannerCallMenu ==
    {[name |-> "dataset_summary", valid |-> TRUE, args |-> NoArgs],
     [name |-> "sample_rows", valid |-> TRUE, args |-> [n |-> 5]],
     [name |-> "find_columns", valid |-> TRUE, args |-> [keyword |-> "AGE"]],
     [name |-> "describe_columns", valid |-> TRUE,
      args |-> [columns |-> [none |-> FALSE, list |-> <<"age", "nope">>]]],
     [name |-> "missing_values", valid |-> TRUE, args |-> NoArgs],
     [name |-> "value_counts", valid |-> TRUE,
      args |-> [column |-> "nope", limit |-> 10]],
     [name |-> "value_counts", valid |-> FALSE, args |-> NoArgs],
     [name |-> "correlation_matrix", valid |-> TRUE, args |-> [method |-> "bogus"]],
     [name |-> "plot", valid |-> TRUE,
      args |-> [kind |-> "scatter", column_x |-> "age", column_y |-> None]],
     [name |-> "plot", valid |-> TRUE,
      args |-> [kind |-> "hist", column_x |-> "age", column_y |-> None]],
     [name |-> "python_repl", valid |-> TRUE, args |-> NoArgs],
     [name |-> "os.system", valid |-> TRUE, args |-> NoArgs]}

\* the final answers the planner gives
FinalTexts == {"The dataset has 5 rows and 3 columns.",
               "![chart](sandbox:/tmp/plot_ab12cd.png)"}

\* mutant of ShouldContinue: the limit is tested one iteration late
ShouldContinue_OffByOne(n) == n <= max_iterations

\* AgentExecutor._should_continue, with max_iterations=10 and no time limit
ShouldContinue(n) == n < max_iterations

\* the forced stopping response of AgentExecutor at the iteration limit
StoppedText == "Agent stopped due to iteration limit or time limit."

\* the messages a user submits
Messages == {"", "   ", "how many rows are there?"}

\* mutant of CatchRunAgent: the exception is not caught
CatchRunAgent_Reraise(o) ==
    IF o.kind = "raise" THEN Raise(o.exc, o.msg) ELSE Return(o.output)

\* "try: response = run_agent(...) except Exception as e: response = f'Error: {e}'"
CatchRunAgent(o) ==
    IF o.kind = "raise" THEN Return("Error: " \o o.msg) ELSE Return(o.output)

(***************************************************************************)
(* chat_handler and the AgentExecutor loop under run_agent, one planner    *)
(* call or one tool call at a time.  The planner emits one tool call per   *)
(* step.                                                                   *)
(***************************************************************************)
\* chat_handler entered: a blank message returns at once; otherwise the
\* transcript, whose entries are the dicts chat_handler returned, is converted
\* and run_agent starts
ChatEnter ==
    \E m \in Messages :
        /\ pc = "idle"
        /\ message' = m
        /\ IF Strip(m) = ""
           THEN /\ pc' = "returned"
                /\ reply' = [kind |-> "return", history |-> chat_history,
                             plot_path |-> None]
           ELSE LET converted == langchain_history(
                        [i \in DOMAIN chat_history |-> DictItem(chat_history[i])])
                IN  IF converted.ok
                    THEN /\ pc' = "planning"
                         /\ reply' = reply
                    ELSE /\ pc' = "returned"
                         /\ reply' = [kind |-> "raise", exc |-> converted.exc]
        /\ UNCHANGED <<State, files, opVars, chartVars, upVars, chat_history, iterations,
                       intermediate_steps, step, outcome>>

\* the planner answers: AgentFinish
PlannerFinish ==
    \E text \in FinalTexts :
        /\ pc = "planning"
        /\ ShouldContinue(iterations)
        /\ outcome' = [kind |-> "return", output |-> text, by |-> "AgentFinish"]
        /\ pc' = "agent_done"
        /\ UNCHANGED <<State, files, opVars, chartVars, upVars, message, chat_history,
                       iterations, intermediate_steps, step, reply>>

\* the planner emits a tool call: AgentAction
PlannerCall ==
    \E c \in PlannerCallMenu :
        /\ pc = "planning"
        /\ ShouldContinue(iterations)
        /\ step' = [call |-> c, ran |-> "none", res |-> NoResult]
        /\ pc' = "executing"
        /\ UNCHANGED <<State, files, opVars, chartVars, upVars, message, chat_history,
                       iterations, intermediate_steps, outcome, reply>>

\* the planner's output does not parse: with handle_parsing_errors=True the
\* OutputParserException becomes the observation of an "_Exception" step
PlannerMalformed ==
    /\ pc = "planning"
    /\ ShouldContinue(iterations)
    /\ step' = [call |-> [name |-> "_Exception", valid |-> TRUE, args |-> NoArgs],
                ran |-> "ExceptionTool",
                res |-> Return("Invalid or incomplete response")]
    /\ intermediate_steps' = Append(intermediate_steps, "error")
    /\ iterations' = iterations + 1
    /\ UNCHANGED <<State, files, opVars, chartVars, upVars, pc, message, chat_history,
                   outcome, reply>>

\* the call of the model fails (network, credentials): the exception leaves
\* agent.invoke
PlannerTransportError ==
    /\ pc = "planning"
    /\ ShouldContinue(iterations)
    /\ outcome' = [kind |-> "raise", exc |-> "APIConnectionError",
                   msg |-> "Connection error."]
    /\ pc' = "agent_done"
    /\ UNCHANGED <<State, files, opVars, chartVars, upVars, message, chat_history,
                   iterations, intermediate_steps, step, reply>>

\* the iteration limit is reached: the forced stopping response
AgentStop ==
    /\ pc = "planning"
    /\ ~ShouldContinue(iterations)
    /\ outcome' = [kind |-> "return", output |-> StoppedText, by |-> "iteration_limit"]
    /\ pc' = "agent_done"
    /\ UNCHANGED <<State, files, opVars, chartVars, upVars, message, chat_history,
                   iterations, intermediate_steps, step, reply>>

\* the executor runs the tool the call names: its return value becomes the
\* observation of the step; an exception it raises leaves agent.invoke
ExecuteTool ==
    \E hex \in HexIds, writable \in BOOLEAN :
        /\ pc = "executing"
        /\ step.call.name \in ToolNames
        /\ LET out == RunTool(step.call, State, files, hex, writable)
           IN  /\ step' = [step EXCEPT !.ran = step.call.name,
                                        !.res = Observation(step.call.name, out.res)]
               /\ files' = out.fs
               /\ IF out.res.ok
                  THEN /\ intermediate_steps' = Append(intermediate_steps, "result")
                       /\ iterations' = iterations + 1
                       /\ pc' = "planning"
                       /\ outcome' = outcome
                  ELSE /\ outcome' = [kind |-> "raise", exc |-> out.res.exc,
                                      msg |-> out.res.msg]
                       /\ pc' = "agent_done"
                       /\ UNCHANGED <<intermediate_steps, iterations>>
        /\ UNCHANGED <<State, opVars, chartVars, upVars, message, chat_history, reply>>

\* mutant of ExecuteInvalidTool: whatever the call names is run
ExecuteInvalidTool_RunsIt ==
    /\ pc = "executing"
    /\ step.call.name \notin ToolNames
    /\ step' = [step EXCEPT !.ran = step.call.name, !.res = Return("done")]
    /\ intermediate_steps' = Append(intermediate_steps, "result")
    /\ iterations' = iterations + 1
    /\ pc' = "planning"
    /\ UNCHANGED <<State, files, opVars, chartVars, upVars, message, chat_history,
                   outcome, reply>>

\* the call names no registered tool: InvalidTool answers with the list of the
\* tool names, and nothing else runs
ExecuteInvalidTool ==
    /\ pc = "executing"
    /\ step.call.name \notin ToolNames
    /\ step' = [step EXCEPT !.ran = "InvalidTool",
                            !.res = Return("is not a valid tool, try one of")]
    /\ intermediate_steps' = Append(intermediate_steps, "error")
    /\ iterations' = iterations + 1
    /\ pc' = "planning"
    /\ UNCHANGED <<State, files, opVars, chartVars, upVars, message, chat_history,
                   outcome, reply>>

\* what the exceptions that leave run_agent say
FailureTexts ==
    {"NoDataset", "UnknownColumn", "CannotDescribe", "UnsupportedMethod",
     "InsufficientNumericColumns", "UnsupportedKind", "MissingSecondaryColumn",
     "SavefigFailed", "InvalidArguments", "Connection error."}

\* the responses chat_handler has after its try block
TurnResponses ==
    FinalTexts \cup {StoppedText} \cup {"Error: " \o m : m \in FailureTexts}

\* the extraction of the plot path from each of them, worked out once
ExtractedPlot == [response \in TurnResponses |-> ExtractPlot(response)]

\* mutant of ChatReturn: a turn whose session raised is answered with the
\* transcript as it was
ChatReturn_DropsFailedTurn ==
    /\ pc = "agent_done"
    /\ LET response == CatchRunAgent(outcome)
           extracted == ExtractedPlot[response.value]
       IN  IF outcome.kind = "raise"
           THEN /\ chat_history' = chat_history
                /\ reply' = [kind |-> "return", history |-> chat_history,
                             plot_path |-> None]
           ELSE /\ chat_history' = chat_history \o
                        <<[role |-> "user", content |-> message],
                          [role |-> "assistant",
                           content |-> extracted.display_response]>>
                /\ reply' = [kind |-> "return", history |-> chat_history',
                             plot_path |-> extracted.plot_path]
    /\ pc' = "returned"
    /\ UNCHANGED <<State, files, opVars, chartVars, upVars, message, iterations,
                   intermediate_steps, step, outcome>>

\* run_agent has returned or raised: chat_handler extracts the plot path and
\* returns the transcript with the two messages of the turn appended
ChatReturn ==
    /\ pc = "agent_done"
    /\ LET response == CatchRunAgent(outcome)
       IN  IF response.ok
           THEN LET extracted == ExtractedPlot[response.value]
                IN  /\ chat_history' = chat_history \o
                            <<[role |-> "user", content |-> message],
                              [role |-> "assistant",
                               content |-> extracted.display_response]>>
                    /\ reply' = [kind |-> "return", history |-> chat_history',
                                 plot_path |-> extracted.plot_path]
           ELSE /\ chat_history' = chat_history
                /\ reply' = [kind |-> "raise", exc |-> response.exc]
    /\ pc' = "returned"
    /\ UNCHANGED <<State, files, opVars, chartVars, upVars, message, iterations,
                   intermediate_steps, step, outcome>>

Init ==
    /\ State \in {AppState, Loaded([dir |-> "/tmp/gradio/1", base |-> "titanic.csv"])}
    /\ files = {}
    /\ call = NoCall
    /\ result = NoResult
    /\ UploadAtRest
    /\ ChartAtRest
    /\ ChatAtRest

Next ==
    \/ ChatEnter
    \/ PlannerFinish
    \/ PlannerCall
    \/ PlannerMalformed
    \/ PlannerTransportError
    \/ AgentStop
    \/ ExecuteTool
    \/ ExecuteInvalidTool
    \/ ChatReturn

Spec == Init /\ [][Next]_vars

\* every step of a chat turn changes its control state
ctl == <<pc, iterations>>

\* chat_handler runs on a worker thread that is scheduled until it returns
FairSpec == Spec /\ WF_ctl(Next)

(***************************************************************************)
(* Chat turns one after another: the UI hands chat_handler the transcript  *)
(* the turn before returned (main.py, user_input.submit).                  *)
(***************************************************************************)
\* the Chatbot component takes the transcript chat_handler returned, and the
\* next message is awaited; each invoke of the AgentExecutor starts with an
\* empty scratchpad
NextTurn ==
    /\ pc = "returned"
    /\ reply.kind = "return"
    /\ Len(reply.history) < 2 * MaxTurns
    /\ chat_history' = reply.history
    /\ pc' = "idle"
    /\ message' = ""
    /\ iterations' = 0
    /\ intermediate_steps' = <<>>
    /\ step' = NoStep
    /\ outcome' = NoOutcome
    /\ reply' = NoReply
    /\ UNCHANGED <<State, files, opVars, upVars, chartVars>>

\* the application as started: no dataset, an empty transcript
TurnsInit ==
    /\ State = AppState
    /\ files = {}
    /\ call = NoCall
    /\ result = NoResult
    /\ UploadAtRest
    /\ ChartAtRest
    /\ ChatAtRest

TurnsNext ==
    \/ Next
    \/ NextTurn

TurnsSpec == TurnsInit /\ [][TurnsNext]_vars


(***************************************************************************)
(* Properties of the chat turn and the agent loop (checked under Spec and  *)
(* FairSpec).                                                              *)
(***************************************************************************)
SessionRunning == pc \in {"planning", "executing"}
SessionEnded == pc \in {"agent_done", "returned"}
StoppedAtLimit == outcome.kind = "return" /\ outcome.by = "iteration_limit"

\* C1: whatever the planner does, a session never executes an 11th iteration, a
\* session the iteration limit stops has executed exactly 10, such a session ends
\* with an output (not an exception), and every session that has started ends.
C1_StopsAtTenIterations ==
    /\ [](/\ iterations <= 10
          /\ Len(intermediate_steps) = iterations
          /\ pc = "executing" => iterations < 10
          /\ StoppedAtLimit => (iterations = 10 /\ SessionEnded)
          /\ (SessionEnded /\ outcome.kind = "return" /\ outcome.by # "AgentFinish")
                => iterations = 10)
    /\ [][iterations' \in {iterations, iterations + 1}]_ctl
    /\ (SessionRunning ~> pc = "returned")

\* a planner that called a tool at every one of its steps, stopped by the limit
C1_Witness ==
    /\ pc = "returned"
    /\ StoppedAtLimit
    /\ iterations = 10
    /\ step.ran \in ToolNames
    /\ reply.kind = "return"

OperationRaised ==
    /\ step.ran \in ToolNames
    /\ ~step.res.ok
    /\ step.res.exc = "ValueError"

\* C2: a ValueError raised by a catalog operation, and a malformed tool call,
\* become an error observation in the scratchpad and the session goes on
\* planning; neither ends the session nor leaves run_agent as an exception.
C2_OperationErrorsRecovered ==
    /\ (OperationRaised \/ step.ran = "ExceptionTool") =>
            /\ iterations >= 1
            /\ intermediate_steps[iterations] = "error"
    /\ outcome.kind = "raise" => outcome.exc # "ValueError"

Unrecoverable == {"APIConnectionError", "OSError"}

\* C3: a planner transport failure or a chart file write failure ends the
\* session: no step is recorded for it, run_agent raises, and chat_handler
\* returns a transcript whose assistant message is the failure message
\* ("Error: " and the exception's text); chat_handler never raises.
C3_UnrecoverableAbortsWithMessage ==
    /\ reply.kind # "raise"
    /\ (~step.res.ok /\ step.res.exc = "OSError") =>
            (outcome.kind = "raise" /\ outcome.exc = "OSError")
    /\ (outcome.kind = "raise" /\ outcome.exc \in Unrecoverable) =>
            /\ SessionEnded
            /\ pc = "returned" =>
                /\ reply.kind = "return"
                /\ reply.history[Len(reply.history)] =
                      [role |-> "assistant", content |-> "Error: " \o outcome.msg]

\* a chart file write failure, reported as the assistant's reply
C3_Witness ==
    /\ pc = "returned"
    /\ step.call.name = "plot"
    /\ step.res = Raise("OSError", "SavefigFailed")
    /\ outcome.kind = "raise"
    /\ reply.kind = "return"
    /\ reply.history[2].content = "Error: SavefigFailed"

Catalog ==
    {"dataset_summary", "sample_rows", "find_columns", "describe_columns",
     "missing_values", "value_counts", "correlation_matrix", "plot"}

\* C6: what the executor runs for a planner's call is one of the eight catalog
\* operations, and then the one the call names; a call naming anything else is
\* answered by InvalidTool with an error observation, runs nothing and changes
\* neither the store nor the files.
C6_OnlyCatalogOperationsRun ==
    /\ [](/\ step.ran \in Catalog \cup {"none", "InvalidTool", "ExceptionTool"}
          /\ step.ran \in Catalog => step.ran = step.call.name
          /\ (step.call.name \notin Catalog /\ step.ran # "none") =>
                /\ step.ran \in {"InvalidTool", "ExceptionTool"}
                /\ step.res.ok
                /\ intermediate_steps[iterations] = "error")
    /\ [][(pc = "executing" /\ step.call.name \notin Catalog) =>
             (State' = State /\ files' = files /\ pc' = "planning")]_ctl

C6_Witness ==
    /\ step.call.name = "python_repl"
    /\ step.ran = "InvalidTool"
    /\ pc = "planning"
    /\ intermediate_steps[iterations] = "error"
    /\ files = {}

(***************************************************************************)
(* Properties of the transcript over the turns (checked under TurnsSpec).  *)
(***************************************************************************)
\* what the assistant message of a turn holds, stated from how run_agent
\* ended: the failure message, the stopping response, or the final text, for
\* which the caption or a trimmed rest stands when it holds a chart reference
TurnAnswered(content, plot_path) ==
    CASE outcome.kind = "raise" ->
            content = "Error: " \o outcome.msg /\ plot_path = None
      [] outcome.kind = "return" /\ outcome.by = "iteration_limit" ->
            content = StoppedText /\ plot_path = None
      [] outcome.kind = "return" /\ outcome.by = "AgentFinish" ->
            IF ContainsChartReference(outcome.output)
            THEN /\ IsChartPath(plot_path)
                 /\ content # ""
                 /\ content = Strip(content)
            ELSE content = outcome.output /\ plot_path = None
      [] OTHER -> FALSE

\* C15: over the turns that follow an empty transcript, the transcript is
\* user and assistant messages in turn; a blank message is answered with the
\* transcript as it was and no plot path, without a session being started;
\* every other turn, however its session ended, is answered with the
\* transcript as it was followed by the user message and one assistant message
\* holding the display text, and chat_handler never raises.
C15_TranscriptGrowsByTwoPerTurn ==
    /\ [](/\ reply.kind # "raise"
          /\ Len(chat_history) % 2 = 0
          /\ \A i \in DOMAIN chat_history :
                /\ DOMAIN chat_history[i] = {"role", "content"}
                /\ chat_history[i].role = IF i % 2 = 1 THEN "user" ELSE "assistant"
                /\ i % 2 = 1 => Strip(chat_history[i].content) # "")
    /\ [][(pc # "returned" /\ pc' = "returned") =>
            /\ reply'.kind = "return"
            /\ IF Strip(message') = ""
               THEN /\ pc = "idle"
                    /\ reply'.history = chat_history
                    /\ reply'.plot_path = None
                    /\ iterations' = 0
                    /\ outcome'.kind = "none"
               ELSE LET n == Len(chat_history)
                    IN  /\ pc = "agent_done"
                        /\ Len(reply'.history) = n + 2
                        /\ SubSeq(reply'.history, 1, n) = chat_history
                        /\ reply'.history[n + 1] = [role |-> "user", content |-> message]
                        /\ reply'.history[n + 2].role = "assistant"
                        /\ DOMAIN reply'.history[n + 2] = {"role", "content"}
                        /\ TurnAnswered(reply'.history[n + 2].content,
                                        reply'.plot_path)]_ctl

\* a third turn answered with the caption and the plot path, after a turn the
\* iteration limit stopped and a turn that raised
C15_Witness ==
    /\ pc = "returned"
    /\ reply.kind = "return"
    /\ Len(reply.history) = 6
    /\ reply.history[2].content = StoppedText
    /\ reply.history[4].content = "Error: NoDataset"
    /\ reply.history[5] = [role |-> "user", content |-> "how many rows are there?"]
    /\ reply.history[6].content = FallbackCaption
    /\ reply.plot_path = "/tmp/plot_ab12cd.png"


=============================================================================
